---- MODULE Spec2Model ----
(***************************************************************************)
(* Weather alert pipeline: hazard classifier (compute_indices.py),         *)
(* region-day aggregator (compute_indices.py main), alert detector         *)
(* (detect_alerts.py), observation ingestion (fetch_openmeteo.py) and the  *)
(* run of the stages (run_pipeline.py).  The JSON stores are the state;    *)
(* every stage is one action that reads its input store and rewrites its   *)
(* output store.                                                           *)
(*                                                                         *)
(* Number model.  tmax_c, tmin_c and wind_max_kmh are only ever compared   *)
(* (max, min, >=, <=), so they are integers in thousandths of the unit     *)
(* (35.0 is 35000, 34.999 is 34999): decimal to binary64 conversion is     *)
(* monotone and the thresholds are exact, so every comparison agrees.      *)
(* rain_mm is added up (sum) by the aggregator, so it is an IEEE-754       *)
(* binary64 value with its 53-bit significand, and + rounds to nearest,    *)
(* ties to even, as Python's float does.                                   *)
(***************************************************************************)
EXTENDS Integers, Sequences, FiniteSets, TLC

VARIABLES
    raw,            \* data/daily_region_raw.json : sequence of RawObservation
    regions_daily,  \* data/regions_daily.json    : sequence of RegionDay
    alerts,         \* data/alerts.json           : sequence of AlertEvent
    region_row,     \* the row handed to classify_levels, with its levels once classified
    prev_row,       \* the row classified just before region_row
    pc,             \* the stage that ran last
    runs,           \* how many times the current stage has run on this input
    region_points,  \* data/region_points_admin1.json : sequence of RegionPoint
    status,         \* data/pipeline_status.json : the counts of the status summary
    files,          \* for each store, whether its file is absent, malformed or JSON
    REGION_POINTS,  \* fetch_openmeteo.REGION_POINTS, the catalog as loaded at import
    today,          \* date.today(), as a day number of Calendar
    requests,       \* the HTTP requests of the last ingestion run, in order
    new_rows        \* the rows the last fetch call or ingestion run obtained

ioVars == <<region_points, status, files, REGION_POINTS, today, requests, new_rows>>

vars == <<raw, regions_daily, alerts, region_row, prev_row, pc, runs,
          region_points, status, files, REGION_POINTS, today, requests, new_rows>>

StoreNames == {"region_points", "raw", "regions_daily", "alerts"}

NoStatus == [regions_count |-> 0, rows_count |-> 0, alerts_count |-> 0]

\* the classifier, the aggregator and the detector on their own: every store file is
\* JSON, and the catalog, the clock and the network play no part
IoIdle ==
    /\ region_points = <<>>
    /\ status = NoStatus
    /\ files = [f \in StoreNames |-> "json"]
    /\ REGION_POINTS = <<>>
    /\ today = 1
    /\ requests = <<>>
    /\ new_rows = <<>>

(***************************************************************************)
(* binary64, non-negative finite values.                                   *)
(* [e |-> E, m |-> <<hi, lo>>] is (hi * 2^27 + lo) * 2^(E - 52), with      *)
(* 2^52 <= hi * 2^27 + lo < 2^53; zero is [e |-> 0, m |-> <<0, 0>>].       *)
(***************************************************************************)
Limb == 2 ^ 27

Dbl(ex, hi, lo) == [e |-> ex, m |-> <<hi, lo>>]

FZero == Dbl(0, 0, 0)

IsZero(x) == x.m = <<0, 0>>

\* two-limb naturals below 2^54
N2Add(a, b) ==
    LET lo == a[2] + b[2]
    IN  <<a[1] + b[1] + (lo \div Limb), lo % Limb>>

N2Less(a, b) == a[1] < b[1] \/ (a[1] = b[1] /\ a[2] < b[2])

N2Pow2(j) == IF j < 27 THEN <<0, 2 ^ j>> ELSE <<2 ^ (j - 27), 0>>

\* n div 2^k and n mod 2^k, 0 <= k <= 54
N2Shr(n, k) ==
    IF k <= 27
    THEN <<n[1] \div (2 ^ k), (n[1] % (2 ^ k)) * (2 ^ (27 - k)) + (n[2] \div (2 ^ k))>>
    ELSE <<0, n[1] \div (2 ^ (k - 27))>>

N2Low(n, k) ==
    IF k <= 27
    THEN <<0, n[2] % (2 ^ k)>>
    ELSE <<n[1] % (2 ^ (k - 27)), n[2]>>

N2Odd(n) == n[2] % 2 = 1

\* a significand that reached 2^53 after rounding up is 2^52 one exponent higher
FNorm(ex, mant) ==
    IF mant[1] >= 2 ^ 26
    THEN [e |-> ex + 1, m |-> <<2 ^ 25, 0>>]
    ELSE [e |-> ex, m |-> mant]

\* x + y for x.e >= y.e > -inf, both positive: exact sum, then round to nearest even
FAddOrdered(x, y) ==
    LET k == x.e - y.e
    IN  IF k >= 55 THEN x
        ELSE
          LET q    == N2Shr(y.m, k)
              r    == N2Low(y.m, k)
              half == IF k = 0 THEN <<0, 0>> ELSE N2Pow2(k - 1)
              S    == N2Add(x.m, q)
          IN  IF S[1] < 2 ^ 26
              THEN \* S < 2^53: the dropped part is r / 2^k
                   LET up == k > 0 /\ (N2Less(half, r) \/ (r = half /\ N2Odd(S)))
                   IN  FNorm(x.e, IF up THEN N2Add(S, <<0, 1>>) ELSE S)
              ELSE \* S >= 2^53: one more bit is dropped
                   LET M  == N2Shr(S, 1)
                       up == N2Odd(S) /\ (r # <<0, 0>> \/ N2Odd(M))
                   IN  FNorm(x.e + 1, IF up THEN N2Add(M, <<0, 1>>) ELSE M)

\* float.__add__
FAdd(x, y) ==
    IF IsZero(x) THEN y
    ELSE IF IsZero(y) THEN x
    ELSE IF x.e >= y.e THEN FAddOrdered(x, y) ELSE FAddOrdered(y, x)

\* float.__lt__ and float.__ge__
FLess(x, y) ==
    IF IsZero(y) THEN FALSE
    ELSE IF IsZero(x) THEN TRUE
    ELSE x.e < y.e \/ (x.e = y.e /\ N2Less(x.m, y.m))

FGe(x, y) == ~FLess(x, y)

\* the literals of the model (float.hex in the comment)
F0_2    == Dbl(-3, 53687091, 26843546)    \* 0.2    0x1.999999999999ap-3
F0_4    == Dbl(-2, 53687091, 26843546)    \* 0.4    0x1.999999999999ap-2
F19_4   == Dbl(4, 40684748, 107374182)    \* 19.4   0x1.3666666666666p+4
F19_999 == Dbl(4, 41940942, 113816633)    \* 19.999 0x1.3ffbe76c8b439p+4
F20     == Dbl(4, 41943040, 0)            \* 20.0
F25     == Dbl(4, 52428800, 0)            \* 25.0
F39_999 == Dbl(5, 41941991, 56908317)     \* 39.999 0x1.3fffdf3b645a2p+5
F40     == Dbl(5, 41943040, 0)            \* 40.0
F45     == Dbl(5, 47185920, 0)            \* 45.0
F59_999 == Dbl(5, 62913511, 56908317)     \* 59.999 0x1.dfffdf3b645a2p+5
F60     == Dbl(5, 62914560, 0)            \* 60.0
F65     == Dbl(6, 34078720, 0)            \* 65.0

(***************************************************************************)
(* compute_indices.py : classify_levels                                    *)
(***************************************************************************)
heat_level_of(tmax) ==
    IF tmax >= 40000 THEN 3
    ELSE IF tmax >= 35000 THEN 2
    ELSE IF tmax >= 30000 THEN 1
    ELSE 0

cold_level_of(tmin) ==
    IF tmin <= -10000 THEN 3
    ELSE IF tmin <= -5000 THEN 2
    ELSE IF tmin <= 0 THEN 1
    ELSE 0

wind_level_of(wind) ==
    IF wind >= 90000 THEN 3
    ELSE IF wind >= 70000 THEN 2
    ELSE IF wind >= 50000 THEN 1
    ELSE 0

rain_level_of(rain) ==
    IF FGe(rain, F60) THEN 3
    ELSE IF FGe(rain, F40) THEN 2
    ELSE IF FGe(rain, F20) THEN 1
    ELSE 0

\* a variant whose comparisons leave the threshold itself in the lower tier
classify_levels_exclusive(row) ==
    [heat_level |-> heat_level_of(row.tmax_c - 1),
     cold_level |-> cold_level_of(row.tmin_c + 1),
     wind_level |-> wind_level_of(row.wind_max_kmh - 1),
     rain_level |-> IF FLess(F60, row.rain_mm) THEN 3
                    ELSE IF FLess(F40, row.rain_mm) THEN 2
                    ELSE IF FLess(F20, row.rain_mm) THEN 1
                    ELSE 0]

\* a variant whose heat ladder tests the thresholds in the wrong order
classify_levels_misordered(row) ==
    [heat_level |-> IF row.tmax_c >= 30000 /\ row.tmax_c < 35000 THEN 2
                    ELSE IF row.tmax_c >= 35000 /\ row.tmax_c < 40000 THEN 1
                    ELSE heat_level_of(row.tmax_c),
     cold_level |-> cold_level_of(row.tmin_c),
     wind_level |-> wind_level_of(row.wind_max_kmh),
     rain_level |-> rain_level_of(row.rain_mm)]

classify_levels(row) ==
    [heat_level |-> heat_level_of(row.tmax_c),
     cold_level |-> cold_level_of(row.tmin_c),
     wind_level |-> wind_level_of(row.wind_max_kmh),
     rain_level |-> rain_level_of(row.rain_mm)]

\* dict.update: the fields of u replace or extend those of d
Update(d, u) ==
    [k \in (DOMAIN d) \cup (DOMAIN u) |-> IF k \in DOMAIN u THEN u[k] ELSE d[k]]

(***************************************************************************)
(* Classifier on its own: a region_row is built as in compute_indices.main *)
(* (lines 102-111), classified, and then rows that differ from the last    *)
(* one in a single metric are classified in turn.                          *)
(***************************************************************************)
TmaxValues == {25000, 29999, 30000, 34999, 35000, 39999, 40000}
TminValues == {5000, 1, 0, -4999, -5000, -9999, -10000}
WindValues == {10000, 49999, 50000, 69999, 70000, 89999, 90000}
RainValues == {F0_2, F19_999, F20, F39_999, F40, F59_999, F60}

NoRow == [date |-> "none"]

MetricRow(tmax, tmin, wind, rain) ==
    [date |-> "2024-06-01", country |-> "FR", region_code |-> "FR-11", region_id |-> "11",
     tmax_c |-> tmax, tmin_c |-> tmin, wind_max_kmh |-> wind, rain_mm |-> rain]

Metrics(row) ==
    [tmax_c |-> row.tmax_c, tmin_c |-> row.tmin_c,
     wind_max_kmh |-> row.wind_max_kmh, rain_mm |-> row.rain_mm]

InitClassify ==
    /\ raw = <<>>
    /\ regions_daily = <<>>
    /\ alerts = <<>>
    /\ \E tmax \in TmaxValues, tmin \in TminValues, wind \in WindValues, rain \in RainValues :
           region_row = MetricRow(tmax, tmin, wind, rain)
    /\ prev_row = NoRow
    /\ pc = "row"
    /\ runs = 0
    /\ IoIdle

\* region_row.update(classify_levels(region_row))
ClassifyRow ==
    /\ pc = "row"
    /\ region_row' = Update(region_row, classify_levels(region_row))
    /\ prev_row' = prev_row
    /\ pc' = "classified"
    /\ UNCHANGED <<raw, regions_daily, alerts, runs, ioVars>>

\* the next row: the last one with one metric replaced, classified the same way
ClassifyNext ==
    /\ pc = "classified"
    /\ \E f \in {"tmax_c", "tmin_c", "wind_max_kmh", "rain_mm"} :
       \E v \in (CASE f = "tmax_c" -> TmaxValues
                   [] f = "tmin_c" -> TminValues
                   [] f = "wind_max_kmh" -> WindValues
                   [] f = "rain_mm" -> RainValues) :
          LET m   == Metrics(region_row)
              nxt == MetricRow(IF f = "tmax_c" THEN v ELSE m.tmax_c,
                               IF f = "tmin_c" THEN v ELSE m.tmin_c,
                               IF f = "wind_max_kmh" THEN v ELSE m.wind_max_kmh,
                               IF f = "rain_mm" THEN v ELSE m.rain_mm)
          IN  region_row' = Update(nxt, classify_levels(nxt))
    /\ prev_row' = region_row
    /\ pc' = "reclassified"
    /\ UNCHANGED <<raw, regions_daily, alerts, runs, ioVars>>

NextClassify == ClassifyRow \/ ClassifyNext

SpecClassify == InitClassify /\ [][NextClassify]_vars

LevelFields == {"heat_level", "cold_level", "wind_level", "rain_level"}

Classified == pc \in {"classified", "reclassified"}

\* prev_row and region_row agree on every metric but f
OnlyDiffers(f) ==
    /\ pc = "reclassified"
    /\ \A g \in {"tmax_c", "tmin_c", "wind_max_kmh", "rain_mm"} \ {f} : prev_row[g] = region_row[g]

\* C7 as stated: for all four hazards, a larger driving metric never gives a lower level.
C7_AsClaimed ==
    /\ (OnlyDiffers("tmax_c") /\ prev_row.tmax_c <= region_row.tmax_c)
           => prev_row.heat_level <= region_row.heat_level
    /\ (OnlyDiffers("tmin_c") /\ prev_row.tmin_c <= region_row.tmin_c)
           => prev_row.cold_level <= region_row.cold_level
    /\ (OnlyDiffers("wind_max_kmh") /\ prev_row.wind_max_kmh <= region_row.wind_max_kmh)
           => prev_row.wind_level <= region_row.wind_level
    /\ (OnlyDiffers("rain_mm") /\ ~FLess(region_row.rain_mm, prev_row.rain_mm))
           => prev_row.rain_level <= region_row.rain_level

\* C7 amended: a larger tmax_c, wind_max_kmh or rain_mm never gives a lower heat, wind or
\* rain level; for cold the direction is reversed: a larger tmin_c never gives a higher
\* cold level (a lower tmin_c never gives a lower one).
C7_Monotone ==
    /\ (OnlyDiffers("tmax_c") /\ prev_row.tmax_c <= region_row.tmax_c)
           => prev_row.heat_level <= region_row.heat_level
    /\ (OnlyDiffers("tmin_c") /\ prev_row.tmin_c <= region_row.tmin_c)
           => prev_row.cold_level >= region_row.cold_level
    /\ (OnlyDiffers("wind_max_kmh") /\ prev_row.wind_max_kmh <= region_row.wind_max_kmh)
           => prev_row.wind_level <= region_row.wind_level
    /\ (OnlyDiffers("rain_mm") /\ ~FLess(region_row.rain_mm, prev_row.rain_mm))
           => prev_row.rain_level <= region_row.rain_level

\* a colder row classified after a milder one gets the higher cold level
C7_Witness ==
    /\ OnlyDiffers("tmin_c")
    /\ prev_row.tmin_c > region_row.tmin_c
    /\ prev_row.cold_level = 1
    /\ region_row.cold_level = 3
    /\ region_row.heat_level = 2

\* C8: classify_levels returns exactly the level of the threshold table, each hazard from
\* its own metric alone and in 0..3: the level is the number of the hazard's three
\* thresholds the metric reaches (>= for heat, wind, rain; <= for cold), so a value on a
\* threshold is in the higher tier (35.0 gives heat 2, 34.999 gives heat 1).
C8_ThresholdTable ==
    Classified =>
        /\ DOMAIN region_row = DOMAIN MetricRow(0, 0, 0, FZero) \cup LevelFields
        /\ region_row.heat_level = Cardinality({t \in {30000, 35000, 40000} : region_row.tmax_c >= t})
        /\ region_row.cold_level = Cardinality({t \in {0, -5000, -10000} : region_row.tmin_c <= t})
        /\ region_row.wind_level = Cardinality({t \in {50000, 70000, 90000} : region_row.wind_max_kmh >= t})
        /\ region_row.rain_level = Cardinality({t \in {F20, F40, F60} : ~FLess(region_row.rain_mm, t)})
        /\ \A f \in LevelFields : region_row[f] \in 0..3
        /\ region_row.tmax_c = 35000 => region_row.heat_level = 2
        /\ region_row.tmax_c = 34999 => region_row.heat_level = 1

\* a day on the heat boundary that is also windy: two ladders nonzero at once
C8_Witness ==
    /\ Classified
    /\ region_row.tmax_c = 35000
    /\ region_row.heat_level = 2
    /\ region_row.wind_level = 3
    /\ region_row.rain_mm = F19_999
    /\ region_row.rain_level = 0

(***************************************************************************)
(* compute_indices.py : _safe_floats and main (the region-day aggregator)  *)
(* A raw metric is JSON null, a non-numeric string or a number:            *)
(* [k |-> "none"], [k |-> "str"], [k |-> "num", v |-> number].             *)
(***************************************************************************)
JNull == [k |-> "none"]
JText == [k |-> "str"]
JNum(x) == [k |-> "num", v |-> x]

\* value is not None and float(value) does not raise
FloatOk(value) == value.k = "num"

\* a variant that puts zero in place of a missing or invalid value
RECURSIVE _safe_floats_defaulting(_, _)
_safe_floats_defaulting(group, key) ==
    IF group = <<>> THEN <<>>
    ELSE LET value == Head(group)[key]
             rest  == _safe_floats_defaulting(Tail(group), key)
         IN  IF FloatOk(value) THEN <<value.v>> \o rest
             ELSE <<IF key = "rain_mm" THEN FZero ELSE 0>> \o rest

RECURSIVE _safe_floats(_, _)
_safe_floats(group, key) ==
    IF group = <<>> THEN <<>>
    ELSE LET value == Head(group)[key]
             rest  == _safe_floats(Tail(group), key)
         IN  IF FloatOk(value) THEN <<value.v>> \o rest ELSE rest

RECURSIVE PyMax(_)
PyMax(vals) ==
    IF Len(vals) = 1 THEN vals[1]
    ELSE LET m == PyMax(Tail(vals)) IN IF m > vals[1] THEN m ELSE vals[1]

RECURSIVE PyMin(_)
PyMin(vals) ==
    IF Len(vals) = 1 THEN vals[1]
    ELSE LET m == PyMin(Tail(vals)) IN IF m < vals[1] THEN m ELSE vals[1]

\* max over floats
RECURSIVE PyMaxF(_)
PyMaxF(vals) ==
    IF Len(vals) = 1 THEN vals[1]
    ELSE LET m == PyMaxF(Tail(vals)) IN IF FLess(vals[1], m) THEN m ELSE vals[1]

\* sum(vals): acc = 0, then acc = acc + v for each v in order
RECURSIVE PySumFrom(_, _)
PySumFrom(acc, vals) ==
    IF vals = <<>> THEN acc ELSE PySumFrom(FAdd(acc, Head(vals)), Tail(vals))

\* a variant that takes the largest value instead of the total
PySum_as_max(vals) == PyMaxF(vals)

PySum(vals) == PySumFrom(FZero, vals)

KeyOf(row) == <<row.date, row.region_code>>

\* the keys of groups, in order of first appearance (dict insertion order)
RECURSIVE GroupKeys(_, _)
GroupKeys(rows, seen) ==
    IF rows = <<>> THEN seen
    ELSE LET key == KeyOf(Head(rows))
         IN  GroupKeys(Tail(rows),
                       IF \E i \in 1..Len(seen) : seen[i] = key THEN seen ELSE Append(seen, key))

GroupOf(rows, key) == SelectSeq(rows, LAMBDA r : KeyOf(r) = key)

\* the body of the loop over groups: <<>> when the group is skipped
aggregate_group(key, grp) ==
    LET tmax_vals == _safe_floats(grp, "tmax_c")
        tmin_vals == _safe_floats(grp, "tmin_c")
        wind_vals == _safe_floats(grp, "wind_max_kmh")
        rain_vals == _safe_floats(grp, "rain_mm")
    IN  IF tmax_vals = <<>> \/ tmin_vals = <<>> \/ wind_vals = <<>> \/ rain_vals = <<>>
        THEN <<>>
        ELSE LET base == grp[1]
                 row  == [date |-> key[1],
                          country |-> base.country,
                          region_code |-> key[2],
                          region_id |-> base.region_id,
                          tmax_c |-> PyMax(tmax_vals),
                          tmin_c |-> PyMin(tmin_vals),
                          wind_max_kmh |-> PyMax(wind_vals),
                          rain_mm |-> PySum(rain_vals)]
             IN  <<Update(row, classify_levels(row))>>

RECURSIVE aggregate_groups(_, _)
aggregate_groups(rows, keys) ==
    IF keys = <<>> THEN <<>>
    ELSE aggregate_group(Head(keys), GroupOf(rows, Head(keys)))
             \o aggregate_groups(rows, Tail(keys))

\* out_rows of compute_indices.main for the raw store content rows
compute_indices_main(rows) == aggregate_groups(rows, GroupKeys(rows, <<>>))

(***************************************************************************)
(* Aggregator on its own: the raw store holds up to MaxRaw observations,   *)
(* each one a reading of RawReadings filed under a (date, region_code) of  *)
(* RawKeys, in any order and with repetitions; compute_indices.main runs.  *)
(***************************************************************************)
MaxRaw == 3

MetricFields == {"tmax_c", "tmin_c", "wind_max_kmh", "rain_mm"}

RawKeys == {<<"2024-06-01", "FR-11">>, <<"2024-06-01", "ES-29">>, <<"2024-06-02", "FR-11">>}

\* region_code is f"{country}-{admin1}" (build_region_points_auto.py:35-37)
CountryOf(code) == IF code = "FR-11" THEN "FR" ELSE "ES"
RegionIdOf(code) == IF code = "FR-11" THEN "11" ELSE "29"

RawReadings ==
    { [city |-> "A", tmax_c |-> JNum(31000), tmin_c |-> JNum(12000),
       wind_max_kmh |-> JNum(20000), rain_mm |-> JNum(F0_2), snow_mm |-> JNull],
      [city |-> "B", tmax_c |-> JNum(36000), tmin_c |-> JNum(-6000),
       wind_max_kmh |-> JNum(55000), rain_mm |-> JNum(F0_4), snow_mm |-> JNull],
      [city |-> "C", tmax_c |-> JNum(28000), tmin_c |-> JNum(3000),
       wind_max_kmh |-> JNum(95000), rain_mm |-> JNum(F19_4), snow_mm |-> JNull],
      [city |-> "A", tmax_c |-> JNull, tmin_c |-> JNum(-11000),
       wind_max_kmh |-> JNum(30000), rain_mm |-> JNum(F25), snow_mm |-> JNull],
      [city |-> "B", tmax_c |-> JNum(41000), tmin_c |-> JNull,
       wind_max_kmh |-> JText, rain_mm |-> JNull, snow_mm |-> JNull] }

\* the row fetch_daily_for_point builds (fetch_openmeteo.py:109-121)
RawRow(key, rd) ==
    [date |-> key[1], country |-> CountryOf(key[2]), region_id |-> RegionIdOf(key[2]),
     region_code |-> key[2], city |-> rd.city,
     tmax_c |-> rd.tmax_c, tmin_c |-> rd.tmin_c, wind_max_kmh |-> rd.wind_max_kmh,
     rain_mm |-> rd.rain_mm, snow_mm |-> rd.snow_mm]

RawChoices == {RawRow(key, rd) : key \in RawKeys, rd \in RawReadings}

InitAggregate ==
    /\ raw \in UNION {[1..n -> RawChoices] : n \in 0..MaxRaw}
    /\ regions_daily = <<>>
    /\ alerts = <<>>
    /\ region_row = NoRow
    /\ prev_row = NoRow
    /\ pc = "raw"
    /\ runs = 0
    /\ IoIdle

\* compute_indices.main: read the raw store, write the region-day store
ComputeIndices ==
    /\ pc = "raw"
    /\ regions_daily' = compute_indices_main(raw)
    /\ pc' = "aggregated"
    /\ UNCHANGED <<raw, alerts, region_row, prev_row, runs, ioVars>>

NextAggregate == ComputeIndices

SpecAggregate == InitAggregate /\ [][NextAggregate]_vars

AsSet(seq) == {seq[i] : i \in 1..Len(seq)}

Permuted(seq, p) == [i \in 1..Len(seq) |-> seq[p[i]]]

\* C9: the RegionDay of every group, or its being dropped, is the same for every
\* permutation of the raw records.
C9_PermutationInvariant ==
    pc = "aggregated" =>
        \A p \in Permutations(1..Len(raw)) :
            AsSet(compute_indices_main(Permuted(raw, p))) = AsSet(regions_daily)

\* the level of the threshold table for each hazard of a row
TableLevels(row) ==
    [heat_level |-> Cardinality({t \in {30000, 35000, 40000} : row.tmax_c >= t}),
     cold_level |-> Cardinality({t \in {0, -5000, -10000} : row.tmin_c <= t}),
     wind_level |-> Cardinality({t \in {50000, 70000, 90000} : row.wind_max_kmh >= t}),
     rain_level |-> Cardinality({t \in {F20, F40, F60} : ~FLess(row.rain_mm, t)})]

\* the valid values of metric f in the raw rows of key, and those rows' positions
ValidAt(key, f) == {i \in 1..Len(raw) : KeyOf(raw[i]) = key /\ raw[i][f].k = "num"}
ValidVals(key, f) == {raw[i][f].v : i \in ValidAt(key, f)}

\* the float sum of the valid rain values of key among the first n raw rows
RECURSIVE RainTotal(_, _)
RainTotal(key, n) ==
    IF n = 0 THEN FZero
    ELSE IF n \in ValidAt(key, "rain_mm")
         THEN FAdd(RainTotal(key, n - 1), raw[n].rain_mm.v)
         ELSE RainTotal(key, n - 1)

\* C10: exactly one RegionDay per (date, region_code) whose group has a valid value for
\* each of the four metrics and none for any other key; its tmax_c is the max, tmin_c the
\* min, wind_max_kmh the max and rain_mm the sum of the group's valid values, and its
\* levels are those of the threshold table for these aggregates.
C10_OnePerValidGroup ==
    pc = "aggregated" =>
        /\ \A key \in {KeyOf(raw[i]) : i \in 1..Len(raw)} :
               Cardinality({j \in 1..Len(regions_daily) : KeyOf(regions_daily[j]) = key})
                   = IF \A f \in MetricFields : ValidVals(key, f) # {} THEN 1 ELSE 0
        /\ \A j \in 1..Len(regions_daily) :
               LET row == regions_daily[j]
                   key == KeyOf(row)
               IN  /\ \E i \in 1..Len(raw) : KeyOf(raw[i]) = key
                   /\ row.tmax_c \in ValidVals(key, "tmax_c")
                   /\ \A v \in ValidVals(key, "tmax_c") : v <= row.tmax_c
                   /\ row.tmin_c \in ValidVals(key, "tmin_c")
                   /\ \A v \in ValidVals(key, "tmin_c") : v >= row.tmin_c
                   /\ row.wind_max_kmh \in ValidVals(key, "wind_max_kmh")
                   /\ \A v \in ValidVals(key, "wind_max_kmh") : v <= row.wind_max_kmh
                   /\ row.rain_mm = RainTotal(key, Len(raw))
                   /\ \A f \in LevelFields : row[f] = TableLevels(row)[f]

\* three raw rows: a group made whole by two partial records, and a group with no valid
\* tmax_c that is dropped
C10_Witness ==
    /\ pc = "aggregated"
    /\ Len(raw) = 3
    /\ \E i, j \in 1..3 :
          /\ KeyOf(raw[i]) = KeyOf(raw[j])
          /\ raw[i].tmax_c = JNull
          /\ raw[j].tmin_c = JNull
    /\ Len(regions_daily) = 1
    /\ Cardinality({KeyOf(raw[i]) : i \in 1..3}) = 2
    /\ regions_daily[1].rain_mm = F25
    /\ regions_daily[1].rain_level = 1

\* the raw rows that have a numeric value for each of the four metrics
CompleteRows(rows) == SelectSeq(rows, LAMBDA r : \A f \in MetricFields : r[f].k = "num")

Without(seq, i) == SubSeq(seq, 1, i - 1) \o SubSeq(seq, i + 1, Len(seq))

\* the hazard level that is classified from each metric
LevelOf(f) ==
    CASE f = "tmax_c" -> "heat_level"
      [] f = "tmin_c" -> "cold_level"
      [] f = "wind_max_kmh" -> "wind_level"
      [] f = "rain_mm" -> "rain_level"

\* C11 as claimed: a raw record with a missing or non-numeric metric contributes none of
\* its values, so the region-day store is what the complete records alone would give.
C11_RecordExcluded ==
    pc = "aggregated" =>
        AsSet(regions_daily) = AsSet(compute_indices_main(CompleteRows(raw)))

\* C11: a missing or non-numeric value of a metric on a raw record is left out of that
\* metric's aggregate and nothing is put in its place: the aggregate and the level of that
\* metric are what they are without the record, whenever the group is still emitted
\* without it, and every aggregate is built from values that records of the group
\* hold; the valid values the record has for the other metrics do contribute.
C11_ValueExcluded ==
    pc = "aggregated" =>
        /\ \A i \in 1..Len(raw) : \A f \in MetricFields :
               raw[i][f].k # "num" =>
                   LET without == compute_indices_main(Without(raw, i))
                   IN  \A a \in 1..Len(regions_daily) : \A b \in 1..Len(without) :
                           /\ KeyOf(regions_daily[a]) = KeyOf(raw[i])
                           /\ KeyOf(without[b]) = KeyOf(raw[i])
                           => /\ regions_daily[a][f] = without[b][f]
                              /\ regions_daily[a][LevelOf(f)] = without[b][LevelOf(f)]
        /\ \A a \in 1..Len(regions_daily) :
               LET row == regions_daily[a]
                   key == KeyOf(row)
               IN  /\ \A f \in MetricFields \ {"rain_mm"} : row[f] \in ValidVals(key, f)
                   /\ \A v \in ValidVals(key, "tmax_c") : v <= row.tmax_c
                   /\ \A v \in ValidVals(key, "tmin_c") : v >= row.tmin_c
                   /\ \A v \in ValidVals(key, "wind_max_kmh") : v <= row.wind_max_kmh
                   /\ \A v \in ValidVals(key, "rain_mm") : ~FLess(row.rain_mm, v)

\* a complete record and a record without tmax_c in one group: the region-day takes its
\* tmax_c from the complete record, and its tmin_c and most of its rain from the other
C11_Witness ==
    /\ pc = "aggregated"
    /\ Len(raw) = 2
    /\ KeyOf(raw[1]) = KeyOf(raw[2])
    /\ raw[1].tmax_c = JNum(31000)
    /\ raw[2].tmax_c = JNull
    /\ raw[2].tmin_c = JNum(-11000)
    /\ Len(regions_daily) = 1
    /\ regions_daily[1].tmax_c = 31000
    /\ regions_daily[1].tmin_c = -11000
    /\ regions_daily[1].cold_level = 3
    /\ regions_daily[1].rain_level = 1

(***************************************************************************)
(* detect_alerts.py                                                        *)
(***************************************************************************)
\* HAZARDS, in the order of the dict
HazardNames == <<"heat", "cold", "wind", "rain">>

HAZARDS(hazard) ==
    CASE hazard = "heat" -> [field |-> "heat_level", min_level |-> 1, min_duration |-> 2]
      [] hazard = "cold" -> [field |-> "cold_level", min_level |-> 1, min_duration |-> 2]
      [] hazard = "wind" -> [field |-> "wind_level", min_level |-> 1, min_duration |-> 1]
      [] hazard = "rain" -> [field |-> "rain_level", min_level |-> 1, min_duration |-> 1]

\* the dates of the model, consecutive calendar days
Calendar ==
    <<"2024-06-01", "2024-06-02", "2024-06-03", "2024-06-04", "2024-06-05",
      "2024-06-06", "2024-06-07", "2024-06-08", "2024-06-09", "2024-06-10",
      "2024-06-11", "2024-06-12", "2024-06-13", "2024-06-14", "2024-06-15",
      "2024-06-16">>

DayNumber == [s \in {Calendar[i] : i \in 1..Len(Calendar)} |-> CHOOSE i \in 1..Len(Calendar) : Calendar[i] = s]

\* datetime.strptime(s, DATE_FMT).date(), as the day number within Calendar
parse_date(s) == DayNumber[s]

Column(rows, f) == [i \in 1..Len(rows) |-> rows[i][f]]

\* the fields every event has
EventHead(rows, hazard) ==
    [country |-> rows[1].country,
     region_code |-> rows[1].region_code,
     hazard |-> hazard,
     start_date |-> rows[1].date,
     end_date |-> rows[Len(rows)].date,
     n_days |-> Len(rows),
     max_level |-> PyMax(Column(rows, HAZARDS(hazard).field))]

\* variants of summarise_run: the value of the first row as the cold peak; the level of
\* the last row as max_level
summarise_run_first_value(rows, hazard) ==
    IF hazard = "cold"
    THEN Update(EventHead(rows, hazard), [f \in {"min_tmin_c"} |-> rows[1].tmin_c])
    ELSE IF hazard = "heat"
    THEN Update(EventHead(rows, hazard), [f \in {"max_tmax_c"} |-> PyMax(Column(rows, "tmax_c"))])
    ELSE IF hazard = "wind"
    THEN Update(EventHead(rows, hazard), [f \in {"max_wind_max_kmh"} |-> PyMax(Column(rows, "wind_max_kmh"))])
    ELSE Update(EventHead(rows, hazard), [f \in {"max_rain_mm"} |-> PyMaxF(Column(rows, "rain_mm"))])

summarise_run_last_level(rows, hazard) ==
    LET head == [EventHead(rows, hazard) EXCEPT !.max_level = rows[Len(rows)][HAZARDS(hazard).field]]
    IN  IF hazard = "cold"
        THEN Update(head, [f \in {"min_tmin_c"} |-> PyMin(Column(rows, "tmin_c"))])
        ELSE IF hazard = "heat"
        THEN Update(head, [f \in {"max_tmax_c"} |-> PyMax(Column(rows, "tmax_c"))])
        ELSE IF hazard = "wind"
        THEN Update(head, [f \in {"max_wind_max_kmh"} |-> PyMax(Column(rows, "wind_max_kmh"))])
        ELSE Update(head, [f \in {"max_rain_mm"} |-> PyMaxF(Column(rows, "rain_mm"))])

summarise_run(rows, hazard) ==
    IF hazard = "heat"
    THEN Update(EventHead(rows, hazard), [f \in {"max_tmax_c"} |-> PyMax(Column(rows, "tmax_c"))])
    ELSE IF hazard = "cold"
    THEN Update(EventHead(rows, hazard), [f \in {"min_tmin_c"} |-> PyMin(Column(rows, "tmin_c"))])
    ELSE IF hazard = "wind"
    THEN Update(EventHead(rows, hazard), [f \in {"max_wind_max_kmh"} |-> PyMax(Column(rows, "wind_max_kmh"))])
    ELSE Update(EventHead(rows, hazard), [f \in {"max_rain_mm"} |-> PyMaxF(Column(rows, "rain_mm"))])

\* sorted(rows, key=lambda r: parse_date(r["date"])): stable, ascending
RECURSIVE InsertByDate(_, _)
InsertByDate(sorted, row) ==
    IF sorted = <<>> THEN <<row>>
    ELSE IF parse_date(sorted[Len(sorted)].date) <= parse_date(row.date)
         THEN Append(sorted, row)
         ELSE Append(InsertByDate(SubSeq(sorted, 1, Len(sorted) - 1), row), sorted[Len(sorted)])

\* a variant that scans the rows in the order given
SortedByDate_unsorted(rows) == rows

RECURSIVE SortedByDate(_)
SortedByDate(rows) ==
    IF rows = <<>> THEN <<>>
    ELSE InsertByDate(SortedByDate(SubSeq(rows, 1, Len(rows) - 1)), rows[Len(rows)])

\* a variant that wants a run longer than min_duration
CloseRun_strict(events, current_run, hazard, min_duration) ==
    IF Len(current_run) > min_duration
    THEN Append(events, summarise_run(current_run, hazard))
    ELSE events

\* events.append(summarise_run(current_run, hazard)) if the run is long enough
CloseRun(events, current_run, hazard, min_duration) ==
    IF Len(current_run) >= min_duration
    THEN Append(events, summarise_run(current_run, hazard))
    ELSE events

\* a variant that extends the run on list adjacency alone
ExtendsRun_by_position(current_run, prev_date, d) == current_run # <<>>

\* current_run and prev_date is not None and d == prev_date + timedelta(days=1);
\* prev_date is <<>> for None and <<d>> for a date
ExtendsRun(current_run, prev_date, d) ==
    current_run # <<>> /\ prev_date # <<>> /\ d = prev_date[1] + 1

\* the for loop of detect_events_for_country from row i on, then the final close-out
RECURSIVE ScanRows(_, _, _, _, _, _)
ScanRows(rows_sorted, i, hazard, current_run, prev_date, events) ==
    LET cfg == HAZARDS(hazard)
    IN  IF i > Len(rows_sorted)
        THEN CloseRun(events, current_run, hazard, cfg.min_duration)
        ELSE LET row   == rows_sorted[i]
                 d     == parse_date(row.date)
                 level == row[cfg.field]
             IN  IF level >= cfg.min_level
                 THEN IF ExtendsRun(current_run, prev_date, d)
                      THEN ScanRows(rows_sorted, i + 1, hazard,
                                    Append(current_run, row), <<d>>, events)
                      ELSE ScanRows(rows_sorted, i + 1, hazard, <<row>>, <<d>>,
                                    CloseRun(events, current_run, hazard, cfg.min_duration))
                 ELSE ScanRows(rows_sorted, i + 1, hazard, <<>>, <<d>>,
                               CloseRun(events, current_run, hazard, cfg.min_duration))

detect_events_for_country(rows, hazard) ==
    ScanRows(SortedByDate(rows), 1, hazard, <<>>, <<>>, <<>>)

\* the region codes of by_region, in order of first appearance
RECURSIVE RegionCodes(_, _)
RegionCodes(rows, seen) ==
    IF rows = <<>> THEN seen
    ELSE LET code == Head(rows).region_code
         IN  RegionCodes(Tail(rows),
                         IF \E i \in 1..Len(seen) : seen[i] = code THEN seen ELSE Append(seen, code))

RECURSIVE EventsOfRegion(_, _)
EventsOfRegion(region_rows, h) ==
    IF h > Len(HazardNames) THEN <<>>
    ELSE detect_events_for_country(region_rows, HazardNames[h]) \o EventsOfRegion(region_rows, h + 1)

RECURSIVE EventsOfRegions(_, _)
EventsOfRegions(rows, codes) ==
    IF codes = <<>> THEN <<>>
    ELSE EventsOfRegion(SelectSeq(rows, LAMBDA r : r.region_code = Head(codes)), 1)
             \o EventsOfRegions(rows, Tail(codes))

\* a variant that extends the alerts already in the store
detect_alerts_main_accumulating(rows) ==
    alerts \o EventsOfRegions(rows, RegionCodes(rows, <<>>))

\* all_alerts of detect_alerts.main for the region-day store content rows
detect_alerts_main(rows) == EventsOfRegions(rows, RegionCodes(rows, <<>>))

(***************************************************************************)
(* Detector on one region: regions_daily holds, for each day of a window   *)
(* of Calendar, no row or the RegionDay of one of DayProfiles, classified  *)
(* as the aggregator does, in one of the orders of RowOrders.  The window  *)
(* is MaxDay days long with the first three profiles, or ShortDay days     *)
(* long with all four.  detect_alerts.main runs once.                      *)
(***************************************************************************)
MaxDay == 6

ShortDay == 4

\* tmax_c, tmin_c, wind_max_kmh, rain_mm of a day
DayProfiles ==
    << <<32000, -6000, 55000, F25>>,      \* heat 1, cold 2, wind 1, rain 1
       <<37000, -12000, 95000, F0_2>>,    \* heat 2, cold 3, wind 3, rain 0
       <<20000, 5000, 10000, F45>>,       \* heat 0, cold 0, wind 0, rain 2
       <<41000, -8000, 75000, F65>> >>    \* heat 3, cold 2, wind 2, rain 3

RegionDay(day, code, p) ==
    LET row == [date |-> Calendar[day], country |-> CountryOf(code), region_code |-> code,
                region_id |-> RegionIdOf(code),
                tmax_c |-> DayProfiles[p][1], tmin_c |-> DayProfiles[p][2],
                wind_max_kmh |-> DayProfiles[p][3], rain_mm |-> DayProfiles[p][4]]
    IN  Update(row, classify_levels(row))

RegionDays ==
    [code \in {"FR-11", "ES-29"} |->
        [day \in 1..Len(Calendar) |->
            [p \in 1..Len(DayProfiles) |-> RegionDay(day, code, p)]]]

\* the rows of region code for days from..to, ascending; pick[day] = 0 is no row
RECURSIVE RowsOf(_, _, _, _)
RowsOf(code, pick, from, to) ==
    IF from > to THEN <<>>
    ELSE (IF pick[from] = 0 THEN <<>> ELSE <<RegionDays[code][from][pick[from]]>>)
             \o RowsOf(code, pick, from + 1, to)

\* the rows at odd positions, then those at even positions from the back
Riffled(seq) ==
    LET odd  == {i \in 1..Len(seq) : i % 2 = 1}
        even == {i \in 1..Len(seq) : i % 2 = 0}
        n    == Cardinality(odd)
    IN  [i \in 1..Len(seq) |-> IF i <= n THEN seq[2 * i - 1] ELSE seq[2 * (Len(seq) + 1 - i)]]

RowOrders == {"ascending", "riffled"}

Arrange(seq, order) ==
    CASE order = "ascending" -> seq
      [] order = "riffled" -> Riffled(seq)

InitDetect ==
    /\ raw = <<>>
    /\ \/ \E pick \in [1..MaxDay -> 0..(Len(DayProfiles) - 1)], order \in RowOrders :
              regions_daily = Arrange(RowsOf("FR-11", pick, 1, MaxDay), order)
       \/ \E pick \in [1..ShortDay -> 0..Len(DayProfiles)], order \in RowOrders :
              regions_daily = Arrange(RowsOf("FR-11", pick, 1, ShortDay), order)
    /\ alerts = <<>>
    /\ region_row = NoRow
    /\ prev_row = NoRow
    /\ pc = "daily"
    /\ runs = 0
    /\ IoIdle

MaxRuns == 2

\* detect_alerts.main: read the region-day store, write the alert store
DetectAlerts ==
    /\ pc \in {"daily", "detected"}
    /\ runs < MaxRuns
    /\ alerts' = detect_alerts_main(regions_daily)
    /\ pc' = "detected"
    /\ runs' = runs + 1
    /\ UNCHANGED <<raw, regions_daily, region_row, prev_row, ioVars>>

DetectOnce == runs = 0 /\ DetectAlerts

NextDetect == DetectOnce

SpecDetect == InitDetect /\ [][NextDetect]_vars

Hazards == {HazardNames[i] : i \in 1..Len(HazardNames)}

AllDays == 1..MaxDay

RegionCodeSet == {regions_daily[i].region_code : i \in 1..Len(regions_daily)}

\* the rows of region code on day d (at most one in a region-day store)
RowsOn(code, d) ==
    {r \in AsSet(regions_daily) : r.region_code = code /\ r.date = Calendar[d]}

\* day d has a row of region code whose level of hazard h reaches h's min_level
Qualifies(code, h, d) ==
    /\ d \in AllDays
    /\ \E r \in RowsOn(code, d) : r[HAZARDS(h).field] >= HAZARDS(h).min_level

\* a..b is a maximal run of consecutive qualifying calendar days
MaximalRun(code, h, a, b) ==
    /\ a <= b
    /\ \A d \in a..b : Qualifies(code, h, d)
    /\ ~Qualifies(code, h, a - 1)
    /\ ~Qualifies(code, h, b + 1)

\* the runs that are long enough, as <<first day, last day>>
LongRuns(code, h) ==
    LET q == [d \in 0..(MaxDay + 1) |-> Qualifies(code, h, d)]
    IN  {ab \in AllDays \X AllDays :
            /\ ab[1] <= ab[2]
            /\ ab[2] - ab[1] + 1 >= HAZARDS(h).min_duration
            /\ ~q[ab[1] - 1]
            /\ ~q[ab[2] + 1]
            /\ \A d \in ab[1]..ab[2] : q[d]}

EventsFor(code, h) == SelectSeq(alerts, LAMBDA e : e.region_code = code /\ e.hazard = h)

\* the rows an event covers
RunRows(e) ==
    {r \in AsSet(regions_daily) :
        /\ r.region_code = e.region_code
        /\ DayNumber[e.start_date] <= DayNumber[r.date]
        /\ DayNumber[r.date] <= DayNumber[e.end_date]}

HeatLevelsByDay(code) ==
    [d \in 1..MaxDay |-> IF RowsOn(code, d) = {} THEN -1
                         ELSE (CHOOSE r \in RowsOn(code, d) : TRUE).heat_level]

Brief(e) == <<e.start_date, e.end_date, e.n_days, e.max_level>>

\* C1: for every hazard the events of a region are exactly the maximal runs of consecutive
\* calendar days that all have a row with level >= min_level and are at least min_duration
\* long, one event each and no other event, whatever the order of the rows; heat levels
\* [1,2,0,1,1,1] on 2024-06-01..06 give (06-01..06-02, 2 days, max 2) and
\* (06-04..06-06, 3 days, max 1).
C1_OneEventPerRun ==
    pc = "detected" =>
        /\ \A code \in RegionCodeSet, h \in Hazards :
               LET ev   == EventsFor(code, h)
                   runs_ == LongRuns(code, h)
               IN  /\ Len(ev) = Cardinality(runs_)
                   /\ \A ab \in runs_ :
                          \E i \in 1..Len(ev) :
                              /\ ev[i].start_date = Calendar[ab[1]]
                              /\ ev[i].end_date = Calendar[ab[2]]
                   /\ \A i \in 1..Len(ev) :
                          <<DayNumber[ev[i].start_date], DayNumber[ev[i].end_date]>> \in runs_
        /\ \A code \in RegionCodeSet :
               (HeatLevelsByDay(code) = [d \in 1..MaxDay |-> IF d <= 6 THEN <<1, 2, 0, 1, 1, 1>>[d] ELSE -1])
                   => LET ev == EventsFor(code, "heat")
                      IN  [i \in 1..Len(ev) |-> Brief(ev[i])]
                              = << <<"2024-06-01", "2024-06-02", 2, 2>>,
                                   <<"2024-06-04", "2024-06-06", 3, 1>> >>

\* the example of C1 with its rows out of date order
C1_Witness ==
    /\ pc = "detected"
    /\ Len(regions_daily) = 6
    /\ regions_daily[2].date = "2024-06-03"
    /\ regions_daily[4].date = "2024-06-06"
    /\ [d \in 1..6 |-> HeatLevelsByDay("FR-11")[d]] = <<1, 2, 0, 1, 1, 1>>
    /\ Len(EventsFor("FR-11", "heat")) = 2

\* C2: no event spans a calendar date that has no row of its region, even when the rows
\* on both sides of the missing date qualify.
C2_GapBreaksRun ==
    pc = "detected" =>
        \A i \in 1..Len(alerts) :
            \A d \in DayNumber[alerts[i].start_date]..DayNumber[alerts[i].end_date] :
                RowsOn(alerts[i].region_code, d) # {}

\* heat qualifies on 06-01, 06-02, 06-04 and 06-05, 06-03 has no row: two heat events
C2_Witness ==
    /\ pc = "detected"
    /\ \A d \in {1, 2, 4, 5} : Qualifies("FR-11", "heat", d)
    /\ RowsOn("FR-11", 3) = {}
    /\ \E i, j \in 1..Len(alerts) :
          /\ alerts[i].hazard = "heat" /\ alerts[i].end_date = "2024-06-02"
          /\ alerts[j].hazard = "heat" /\ alerts[j].start_date = "2024-06-04"

\* day d qualifies and neither neighbour does
LoneDay(code, h, d) == MaximalRun(code, h, d, d)

\* C3: a run exactly min_duration long is emitted; for wind and rain a lone qualifying day
\* yields its own event with n_days = 1; for heat and cold a lone qualifying day yields
\* no event and every event has n_days >= 2.
C3_MinDuration ==
    pc = "detected" =>
        \A code \in RegionCodeSet, h \in Hazards :
            LET ev == EventsFor(code, h)
                md == HAZARDS(h).min_duration
            IN  /\ \A a \in AllDays :
                       MaximalRun(code, h, a, a + md - 1) =>
                           \E i \in 1..Len(ev) :
                               /\ ev[i].start_date = Calendar[a]
                               /\ ev[i].n_days = md
                /\ h \in {"wind", "rain"} =>
                       \A d \in AllDays :
                           LoneDay(code, h, d) =>
                               Cardinality({i \in 1..Len(ev) :
                                               /\ ev[i].start_date = Calendar[d]
                                               /\ ev[i].end_date = Calendar[d]
                                               /\ ev[i].n_days = 1}) = 1
                /\ h \in {"heat", "cold"} =>
                       /\ \A i \in 1..Len(ev) : ev[i].n_days >= 2
                       /\ \A d \in AllDays :
                              LoneDay(code, h, d) =>
                                  \A i \in 1..Len(ev) :
                                      ~(DayNumber[ev[i].start_date] <= d /\ d <= DayNumber[ev[i].end_date])

\* a lone hot and windy day gives a one-day wind event and no heat event, and a later
\* heat run of exactly two days is the only heat event
C3_Witness ==
    /\ pc = "detected"
    /\ LoneDay("FR-11", "heat", 1)
    /\ LoneDay("FR-11", "wind", 1)
    /\ \E e \in AsSet(alerts) : e.hazard = "wind" /\ e.start_date = "2024-06-01" /\ e.n_days = 1
    /\ Len(EventsFor("FR-11", "heat")) = 1
    /\ EventsFor("FR-11", "heat")[1].start_date = "2024-06-03"
    /\ EventsFor("FR-11", "heat")[1].n_days = 2

EventFields ==
    {"country", "region_code", "hazard", "start_date", "end_date", "n_days", "max_level"}

PeakFieldOf(h) ==
    CASE h = "heat" -> "max_tmax_c"
      [] h = "cold" -> "min_tmin_c"
      [] h = "wind" -> "max_wind_max_kmh"
      [] h = "rain" -> "max_rain_mm"

\* the tmin_c of the rows an event covers, by day
TminByDay(e) ==
    [d \in DayNumber[e.start_date]..DayNumber[e.end_date] |->
        (CHOOSE r \in RunRows(e) : r.date = Calendar[d]).tmin_c]

\* C4: an event carries exactly one peak field, that of its hazard: the minimum tmin_c of
\* the run for cold ([-6,-12,-8] gives -12), the maximum tmax_c for heat, the maximum
\* wind_max_kmh for wind and the maximum single-day rain_mm for rain.
C4_PeakValue ==
    pc = "detected" =>
        \A i \in 1..Len(alerts) :
            LET e    == alerts[i]
                rows == RunRows(e)
                peak == e[PeakFieldOf(e.hazard)]
            IN  /\ DOMAIN e = EventFields \cup {PeakFieldOf(e.hazard)}
                /\ e.hazard = "cold" =>
                       /\ peak \in {r.tmin_c : r \in rows}
                       /\ \A r \in rows : peak <= r.tmin_c
                       /\ (e.n_days = 3
                            /\ [k \in 1..3 |-> TminByDay(e)[DayNumber[e.start_date] + k - 1]]
                                   = <<-6000, -12000, -8000>>) => peak = -12000
                /\ e.hazard = "heat" =>
                       /\ peak \in {r.tmax_c : r \in rows}
                       /\ \A r \in rows : peak >= r.tmax_c
                /\ e.hazard = "wind" =>
                       /\ peak \in {r.wind_max_kmh : r \in rows}
                       /\ \A r \in rows : peak >= r.wind_max_kmh
                /\ e.hazard = "rain" =>
                       /\ peak \in {r.rain_mm : r \in rows}
                       /\ \A r \in rows : ~FLess(peak, r.rain_mm)

\* the cold run -6, -12, -8 with peak -12, whose days are also a wind event that peaks
\* on its second day
C4_Witness ==
    /\ pc = "detected"
    /\ \E e \in AsSet(alerts) :
          /\ e.hazard = "cold"
          /\ e.n_days = 3
          /\ [k \in 1..3 |-> TminByDay(e)[DayNumber[e.start_date] + k - 1]] = <<-6000, -12000, -8000>>
          /\ e.min_tmin_c = -12000
    /\ \E e \in AsSet(alerts) :
          /\ e.hazard = "wind"
          /\ e.n_days = 3
          /\ e.max_wind_max_kmh = 95000

\* C5: start_date and end_date are the dates of the first and last row of the run, n_days
\* is the number of its rows and of the calendar days from start_date to end_date,
\* max_level is the maximum level over its rows (between min_level and 3), and country
\* and region_code are those of its first row.
C5_EventFields ==
    pc = "detected" =>
        \A i \in 1..Len(alerts) :
            LET e     == alerts[i]
                rows  == RunRows(e)
                field == HAZARDS(e.hazard).field
                first == RowsOn(e.region_code, DayNumber[e.start_date])
            IN  /\ DayNumber[e.start_date] <= DayNumber[e.end_date]
                /\ first # {}
                /\ RowsOn(e.region_code, DayNumber[e.end_date]) # {}
                /\ MaximalRun(e.region_code, e.hazard, DayNumber[e.start_date], DayNumber[e.end_date])
                /\ e.n_days = Cardinality(rows)
                /\ e.n_days = DayNumber[e.end_date] - DayNumber[e.start_date] + 1
                /\ e.max_level \in {r[field] : r \in rows}
                /\ \A r \in rows : r[field] <= e.max_level
                /\ e.max_level \in HAZARDS(e.hazard).min_level..3
                /\ \A r \in first : e.country = r.country /\ e.region_code = r.region_code

\* a three-day cold event that peaks at level 3 on its first day and ends on a level 2 day
C5_Witness ==
    /\ pc = "detected"
    /\ \E e \in AsSet(alerts) :
          /\ e.hazard = "cold"
          /\ e.n_days = 3
          /\ e.max_level = 3
          /\ e.country = "FR"
          /\ \A r \in RowsOn(e.region_code, DayNumber[e.end_date]) : r.cold_level = 2
          /\ \A r \in RowsOn(e.region_code, DayNumber[e.start_date]) : r.cold_level = 3

(***************************************************************************)
(* Detection stage on two regions: regions_daily holds rows of FR-11 and   *)
(* ES-29 over MainDays days, listed region by region or day by day, and    *)
(* detect_alerts.main runs up to MaxRuns times on the same store.          *)
(***************************************************************************)
MainDays == 2

\* the rows of two ascending lists, day by day
RECURSIVE ByDay(_, _, _)
ByDay(xs, ys, day) ==
    IF day > Len(Calendar) THEN <<>>
    ELSE SelectSeq(xs, LAMBDA r : r.date = Calendar[day])
             \o SelectSeq(ys, LAMBDA r : r.date = Calendar[day])
             \o ByDay(xs, ys, day + 1)

InitMain ==
    /\ raw = <<>>
    /\ \E pickFR \in [1..MainDays -> 0..(Len(DayProfiles) - 1)],
          pickES \in [1..MainDays -> 0..(Len(DayProfiles) - 1)] :
           LET fr == RowsOf("FR-11", pickFR, 1, MainDays)
               es == RowsOf("ES-29", pickES, 1, MainDays)
           IN  \/ regions_daily = fr \o es
               \/ regions_daily = ByDay(es, fr, 1)
    /\ alerts = <<>>
    /\ region_row = NoRow
    /\ prev_row = NoRow
    /\ pc = "daily"
    /\ runs = 0
    /\ IoIdle

NextMain == DetectAlerts

SpecMain == InitMain /\ [][NextMain]_vars

HISTORY_DAYS == 3

isoformat(d) == Calendar[d]

fromisoformat(s) == DayNumber[s]

IsoGe(s, t) == DayNumber[s] >= DayNumber[t]

\* what one requests.get followed by raise_for_status and the reading of the body can
\* do: succeed, raise ReadTimeout, raise HTTPError with status 429 or 500, raise
\* ConnectionError (no response), or answer 200 with a body that is not the expected JSON
AttemptOutcomes ==
    {"ok", "read_timeout", "http_429", "http_500", "connection_error", "bad_body"}

\* getattr(getattr(error, "response", None), "status_code", None); 0 stands for None
StatusCode(o) ==
    CASE o = "http_429" -> 429
      [] o = "http_500" -> 500
      [] OTHER -> 0

Attempt(o, secs) == [outcome |-> o, backoff |-> secs]

\* a variant that gives up after the first failure
RetryLoop_no_retry(outcomes, attempt) == <<Attempt(outcomes[attempt + 1], 0)>>

\* for attempt in range(2): the attempts made, each with the sleep that follows it, when
\* the server answers attempt k with outcomes[k + 1]
RECURSIVE RetryLoop(_, _)
RetryLoop(outcomes, attempt) ==
    LET o == outcomes[attempt + 1]
    IN  IF o \in {"ok", "bad_body"} THEN <<Attempt(o, 0)>>
        ELSE IF o = "read_timeout"
        THEN IF attempt = 0
             THEN <<Attempt(o, 5)>> \o RetryLoop(outcomes, 1)
             ELSE <<Attempt(o, 0)>>
        ELSE IF StatusCode(o) = 429 /\ attempt = 0
             THEN <<Attempt(o, 3)>> \o RetryLoop(outcomes, 1)
             ELSE <<Attempt(o, 0)>>

\* the metrics the provider reports for a city
ReadingOf(city) ==
    CHOOSE rd \in RawReadings :
        rd.city = city /\ \A f \in MetricFields : rd[f].k = "num"

\* rows.append({...}) of both fetch functions
ObservationRow(pt, d) ==
    LET rd == ReadingOf(pt.city)
    IN  [date |-> d, country |-> pt.country, region_id |-> pt.region_id,
         region_code |-> pt.region_code, city |-> pt.city,
         tmax_c |-> rd.tmax_c, tmin_c |-> rd.tmin_c, wind_max_kmh |-> rd.wind_max_kmh,
         rain_mm |-> rd.rain_mm, snow_mm |-> rd.snow_mm]

LogOf(kind, pt, start_date, end_date, made) ==
    [k \in 1..Len(made) |->
        [kind |-> kind, region_code |-> pt.region_code, city |-> pt.city,
         start_date |-> start_date, end_date |-> end_date, attempt |-> k - 1,
         outcome |-> made[k].outcome, backoff |-> made[k].backoff]]

\* a variant in which a request error is not caught
FetchResult_uncaught(made, log, times, pt) ==
    LET last == made[Len(made)].outcome
    IN  [rows |-> IF last = "ok"
                  THEN [k \in 1..Len(times) |-> ObservationRow(pt, times[k])]
                  ELSE <<>>,
         log |-> log,
         raised |-> last # "ok"]

\* what a fetch hands back: its rows, the requests it made, and whether it raised
FetchResult(made, log, times, pt) ==
    LET last == made[Len(made)].outcome
    IN  [rows |-> IF last = "ok"
                  THEN [k \in 1..Len(times) |-> ObservationRow(pt, times[k])]
                  ELSE <<>>,
         log |-> log,
         raised |-> last = "bad_body"]

\* answer.outcomes: the outcome of each attempt; answer.times: data["daily"]["time"]
fetch_daily_for_point(pt, start_date, end_date, answer) ==
    LET made == RetryLoop(answer.outcomes, 0)
    IN  FetchResult(made, LogOf("archive", pt, start_date, end_date, made),
                    answer.times, pt)

fetch_forecast_for_point(pt, answer) ==
    LET made == RetryLoop(answer.outcomes, 0)
    IN  FetchResult(made, LogOf("forecast", pt, "", "", made), answer.times, pt)

SetMax(S) == CHOOSE x \in S : \A y \in S : y <= x

\* latest_by_region: per region_code, the latest date of the existing rows that is not
\* before history_start; a code with no such row has no entry
latest_by_region(existing_rows, history_start) ==
    LET kept == {i \in 1..Len(existing_rows) :
                    fromisoformat(existing_rows[i].date) >= history_start}
    IN  [code \in {existing_rows[i].region_code : i \in kept} |->
            SetMax({fromisoformat(existing_rows[i].date) :
                       i \in {j \in kept : existing_rows[j].region_code = code}})]

\* a variant that fetches the whole window whatever the store holds
StartFetch_whole_window(pt, existing_rows, history_start) == history_start

\* start_fetch of the point loop of run_backfill_mode
StartFetch(pt, existing_rows, history_start) ==
    LET latest == latest_by_region(existing_rows, history_start)
    IN  IF pt.region_code \notin DOMAIN latest
        THEN history_start
        ELSE IF latest[pt.region_code] + 1 > history_start
             THEN latest[pt.region_code] + 1
             ELSE history_start

\* the dates a provider answers with: every date asked for, or all but the last one
\* (the archive lags behind the calendar)
TimesOf(from, to, shape) ==
    [k \in 1..(IF shape = "lagging" THEN to - from ELSE to - from + 1) |->
        isoformat(from + k - 1)]

\* for pt in REGION_POINTS of run_backfill_mode, from point i on; plans[i] is how the
\* provider treats the request for point i.  An exception leaves the loop and the run.
RECURSIVE BackfillPoints(_, _, _, _, _, _)
BackfillPoints(points, i, existing_rows, history_start, end, plans) ==
    IF i > Len(points) THEN [new_rows |-> <<>>, log |-> <<>>, raised |-> FALSE]
    ELSE LET pt == points[i]
             start_fetch == StartFetch(pt, existing_rows, history_start)
         IN  IF start_fetch > end
             THEN BackfillPoints(points, i + 1, existing_rows, history_start, end, plans)
             ELSE LET got == fetch_daily_for_point(pt, isoformat(start_fetch), isoformat(end),
                                 [outcomes |-> plans[i].outcomes,
                                  times |-> TimesOf(start_fetch, end, plans[i].shape)])
                  IN  IF got.raised
                      THEN [new_rows |-> got.rows, log |-> got.log, raised |-> TRUE]
                      ELSE LET rest == BackfillPoints(points, i + 1, existing_rows,
                                                      history_start, end, plans)
                           IN  [new_rows |-> got.rows \o rest.new_rows,
                                log |-> got.log \o rest.log,
                                raised |-> rest.raised]

\* a variant of the trim that keeps every row
Trim_keep_all(rows, cutoff_iso) == rows

\* trimmed = [row for row in combined if ... row["date"] >= cutoff_iso]
Trim(rows, cutoff_iso) == SelectSeq(rows, LAMBDA row : IsoGe(row.date, cutoff_iso))

run_backfill_mode(existing_rows, day, points, plans) ==
    LET end == day - 1
        history_start == end - (HISTORY_DAYS - 1)
        got == BackfillPoints(points, 1, existing_rows, history_start, end, plans)
        combined == existing_rows \o got.new_rows
        cutoff_iso == isoformat(end - (HISTORY_DAYS - 1))
    IN  [rows |-> Trim(combined, cutoff_iso), new_rows |-> got.new_rows,
         log |-> got.log, raised |-> got.raised]

\* for pt in REGION_POINTS of run_daily_mode: only today's and tomorrow's rows are kept
RECURSIVE DailyPoints(_, _, _, _)
DailyPoints(points, i, day, plans) ==
    IF i > Len(points) THEN [new_rows |-> <<>>, log |-> <<>>, raised |-> FALSE]
    ELSE LET got == fetch_forecast_for_point(points[i],
                        [outcomes |-> plans[i].outcomes,
                         times |-> IF plans[i].shape = "lagging"
                                   THEN TimesOf(day, day, "full")
                                   ELSE TimesOf(day, day + 2, "full")])
             wanted == SelectSeq(got.rows,
                           LAMBDA r : r.date = isoformat(day) \/ r.date = isoformat(day + 1))
         IN  IF got.raised
             THEN [new_rows |-> wanted, log |-> got.log, raised |-> TRUE]
             ELSE LET rest == DailyPoints(points, i + 1, day, plans)
                  IN  [new_rows |-> wanted \o rest.new_rows,
                       log |-> got.log \o rest.log,
                       raised |-> rest.raised]

run_daily_mode(existing_rows, day, points, plans) ==
    LET today_iso == isoformat(day)
        base_rows == SelectSeq(existing_rows, LAMBDA row : ~IsoGe(row.date, today_iso))
        got == DailyPoints(points, 1, day, plans)
        combined == base_rows \o got.new_rows
        cutoff_iso == isoformat(day - (HISTORY_DAYS - 1))
    IN  [rows |-> Trim(combined, cutoff_iso), new_rows |-> got.new_rows,
         log |-> got.log, raised |-> got.raised]

\* existing_rows of both modes: the parsed store, or [] when the file is absent or
\* json.loads raises JSONDecodeError
LoadExisting == IF files["raw"] = "json" THEN raw ELSE <<>>

\* main(): backfill when the raw file does not exist or WEATHER_FETCH_MODE is backfill,
\* daily otherwise
fetch_main(mode, plans) ==
    IF files["raw"] = "absent" \/ mode = "backfill"
    THEN run_backfill_mode(LoadExisting, today, REGION_POINTS, plans)
    ELSE run_daily_mode(LoadExisting, today, REGION_POINTS, plans)

(***************************************************************************)
(* Ingestion runs one after another: the raw store starts absent,          *)
(* malformed or as an empty list, the catalog holds two points of one      *)
(* region or of two regions, and runs follow in either mode, on the same   *)
(* day or on later days, while the provider answers each point's request   *)
(* in one of the ways of IngestPlans.                                      *)
(***************************************************************************)
Point(code, city) ==
    [country |-> CountryOf(code), region_id |-> RegionIdOf(code),
     region_code |-> code, city |-> city]

Catalogs ==
    { <<Point("FR-11", "A"), Point("FR-11", "B")>>,
      <<Point("FR-11", "A"), Point("ES-29", "C")>> }

IngestPlans ==
    { [outcomes |-> <<"ok", "ok">>, shape |-> "full"],
      [outcomes |-> <<"ok", "ok">>, shape |-> "lagging"],
      [outcomes |-> <<"http_429", "http_429">>, shape |-> "full"],
      [outcomes |-> <<"bad_body", "ok">>, shape |-> "full"] }

MaxIngestRuns == 2

MaxDaysOn == 1

\* the first run date: the window of the first run starts on day 2 of Calendar
FirstDay == HISTORY_DAYS + 2

\* the state before ingestion, but for the raw store and the catalog
BeforeIngest ==
    /\ regions_daily = <<>>
    /\ alerts = <<>>
    /\ region_row = NoRow
    /\ prev_row = NoRow
    /\ pc = "loaded"
    /\ runs = 0
    /\ status = NoStatus
    /\ today = FirstDay
    /\ requests = <<>>
    /\ new_rows = <<>>

InitIngest ==
    /\ BeforeIngest
    /\ raw = <<>>
    /\ \E f \in {"absent", "malformed", "json"} :
           files = [s \in StoreNames |-> IF s = "raw" THEN f ELSE "json"]
    /\ region_points \in Catalogs
    /\ REGION_POINTS = region_points

\* fetch_openmeteo.main: one ingestion run, the provider answering as one of planset
\* for each point.  An exception leaves the store file as it was.
FetchWeatherWith(planset) ==
    \E mode \in {"daily", "backfill"}, plans \in [1..Len(REGION_POINTS) -> planset] :
        LET out == fetch_main(mode, plans)
        IN  /\ requests' = out.log
            /\ new_rows' = out.new_rows
            /\ IF out.raised
               THEN /\ pc' = "fetch_raised"
                    /\ UNCHANGED <<raw, files>>
               ELSE /\ pc' = IF files["raw"] = "absent" \/ mode = "backfill"
                             THEN "backfilled" ELSE "daily_fetched"
                    /\ raw' = out.rows
                    /\ files' = [files EXCEPT !["raw"] = "json"]
            /\ runs' = runs + 1
            /\ UNCHANGED <<regions_daily, alerts, region_row, prev_row, region_points,
                           status, REGION_POINTS, today>>

FetchWeather == runs < MaxIngestRuns /\ FetchWeatherWith(IngestPlans)

\* the calendar moves on to the next day
Midnight ==
    /\ today < FirstDay + MaxDaysOn
    /\ today' = today + 1
    /\ UNCHANGED <<raw, regions_daily, alerts, region_row, prev_row, pc, runs,
                   region_points, status, files, REGION_POINTS, requests, new_rows>>

NextIngest == FetchWeather \/ Midnight

SpecIngest == InitIngest /\ [][NextIngest]_vars

RowKey(row) == <<row.date, row.region_code, row.city>>

\* C13: starting from an empty store, after any sequence of ingestion runs the raw store
\* holds no two rows with the same (date, region_code, city).
C13_NoDuplicateRows ==
    \A i, j \in 1..Len(raw) : RowKey(raw[i]) = RowKey(raw[j]) => i = j

\* a second run has added to the rows of the first while one of its two points failed:
\* the store holds rows of three different dates for one point and fewer for the other
C13_Witness ==
    /\ runs = 2
    /\ pc \in {"backfilled", "daily_fetched"}
    /\ \E k \in 1..Len(requests) : requests[k].outcome = "http_429"
    /\ new_rows # <<>>
    /\ \E p, q \in {REGION_POINTS[k] : k \in 1..Len(REGION_POINTS)} :
           /\ Cardinality({i \in 1..Len(raw) : raw[i].city = p.city}) >= 3
           /\ Cardinality({i \in 1..Len(raw) : raw[i].city = q.city}) \in 1..2

\* the dates of the window of a backfill run on the current day
WindowDays == ((today - 1) - (HISTORY_DAYS - 1))..(today - 1)

HoldsRow(rows, pt, d) ==
    \E i \in 1..Len(rows) :
        /\ rows[i].city = pt.city
        /\ rows[i].region_code = pt.region_code
        /\ rows[i].date = isoformat(d)

\* every request of the last run was answered, with a row for each date it asked for
AllRequestsServed ==
    \A k \in 1..Len(requests) :
        LET r == requests[k]
        IN  /\ r.outcome = "ok"
            /\ \A d \in DayNumber[r.start_date]..DayNumber[r.end_date] :
                   HoldsRow(new_rows, [city |-> r.city, region_code |-> r.region_code], d)

\* the last run requested point pt and gave up on it
GaveUpOn(pt) ==
    \E k \in 1..Len(requests) :
        /\ requests[k].city = pt.city
        /\ requests[k].region_code = pt.region_code
        /\ requests[k].outcome # "ok"
        /\ \A m \in (k + 1)..Len(requests) : requests[m].city # pt.city

\* C18: when a backfill run gave up on a point, the next backfill run, if every request
\* it makes is answered in full, leaves the raw store with a row of that point for every
\* date of the window up to yesterday.
C18_SkippedPointRecovers ==
    [][\A k \in 1..Len(REGION_POINTS) :
          (/\ pc = "backfilled"
           /\ GaveUpOn(REGION_POINTS[k])
           /\ runs' = runs + 1
           /\ pc' = "backfilled"
           /\ AllRequestsServed')
          => \A d \in WindowDays' : HoldsRow(raw', REGION_POINTS[k], d)]_vars

(***************************************************************************)
(* One ingestion run over a store that already has content: rows of some   *)
(* points of a three-point catalog, dated before, inside and after the     *)
(* window, and the provider answering in any of the ways of RunPlans.      *)
(***************************************************************************)
FullCatalog == <<Point("FR-11", "A"), Point("FR-11", "B"), Point("ES-29", "C")>>

RunPlans ==
    { [outcomes |-> <<"ok", "ok">>, shape |-> "full"],
      [outcomes |-> <<"ok", "ok">>, shape |-> "lagging"],
      [outcomes |-> <<"read_timeout", "ok">>, shape |-> "full"],
      [outcomes |-> <<"read_timeout", "read_timeout">>, shape |-> "full"],
      [outcomes |-> <<"http_429", "ok">>, shape |-> "full"],
      [outcomes |-> <<"http_429", "http_500">>, shape |-> "full"],
      [outcomes |-> <<"connection_error", "ok">>, shape |-> "full"],
      [outcomes |-> <<"http_500", "ok">>, shape |-> "full"],
      [outcomes |-> <<"bad_body", "ok">>, shape |-> "full"] }

\* the days of the rows already stored, as offsets from the run date
StoredDayOffsets ==
    { {},
      {-(HISTORY_DAYS + 1), -HISTORY_DAYS, -2, -1},
      {-2, -1, 0, 1},
      {-(HISTORY_DAYS + 1), -1, 2},
      {-HISTORY_DAYS} }

StoredPointSets == {{1, 2, 3}, {1}, {2, 3}}

\* the rows of points[i], i in picked, on the days of days: point by point, day by day
RECURSIVE StoredRows(_, _, _, _)
StoredRows(points, picked, days, i) ==
    IF i > Len(points) THEN <<>>
    ELSE (IF i \in picked
          THEN LET n == Cardinality(days)
                   nth(k) == CHOOSE d \in days : Cardinality({e \in days : e < d}) = k - 1
               IN  [k \in 1..n |-> ObservationRow(points[i], isoformat(nth(k)))]
          ELSE <<>>)
         \o StoredRows(points, picked, days, i + 1)

InitRun ==
    /\ BeforeIngest
    /\ region_points = FullCatalog
    /\ REGION_POINTS = FullCatalog
    /\ \E offsets \in StoredDayOffsets, picked \in StoredPointSets :
           raw = StoredRows(FullCatalog, picked, {FirstDay + o : o \in offsets}, 1)
    /\ \E f \in {"absent", "malformed", "json"} :
           /\ f = "absent" => raw = <<>>
           /\ files = [s \in StoreNames |-> IF s = "raw" THEN f ELSE "json"]

FetchOnce == runs = 0 /\ FetchWeatherWith(RunPlans)

NextRun == FetchOnce

SpecRun == InitRun /\ [][NextRun]_vars

DayOf(row) == DayNumber[row.date]

Written == pc \in {"backfilled", "daily_fetched"}

\* C12 as claimed: after an ingestion run in either mode every row of the raw store is
\* dated within the HISTORY_DAYS days that end yesterday.
C12_EndsYesterday ==
    Written =>
        \A i \in 1..Len(raw) :
            /\ DayOf(raw[i]) >= (today - 1) - (HISTORY_DAYS - 1)
            /\ DayOf(raw[i]) <= today - 1

\* C12: after a backfill run no row is dated before yesterday minus HISTORY_DAYS - 1 days,
\* and none after yesterday but rows the store held before the run; after a daily run
\* every row is dated from today minus HISTORY_DAYS - 1 days to tomorrow, so the store
\* also holds dates after yesterday.
C12_Retention ==
    [][(runs' = runs + 1 /\ Written') =>
          \A i \in 1..Len(raw') :
              IF pc' = "backfilled"
              THEN /\ DayOf(raw'[i]) >= (today - 1) - (HISTORY_DAYS - 1)
                   /\ \/ DayOf(raw'[i]) <= today - 1
                      \/ \E j \in 1..Len(LoadExisting) : LoadExisting[j] = raw'[i]
              ELSE /\ DayOf(raw'[i]) >= today - (HISTORY_DAYS - 1)
                   /\ DayOf(raw'[i]) <= today + 1]_vars

\* a daily run over a store that held rows from before the window: the old rows are
\* gone, and the store runs from the first day of the window to tomorrow
C12_Witness ==
    /\ pc = "daily_fetched"
    /\ runs = 1
    /\ \E i \in 1..Len(raw) : DayOf(raw[i]) = today - (HISTORY_DAYS - 1)
    /\ \E i \in 1..Len(raw) : DayOf(raw[i]) = today + 1
    /\ \A i \in 1..Len(raw) : DayOf(raw[i]) >= today - (HISTORY_DAYS - 1)
    /\ Len(raw) < Len(new_rows) + 3 * (HISTORY_DAYS - 1)

\* the points a run has to request: every point in daily mode, and in backfill mode the
\* points whose region has no row for yesterday yet
DuePoints(existing_rows, backfill) ==
    {k \in 1..Len(REGION_POINTS) :
        backfill =>
            ~\E i \in 1..Len(existing_rows) :
                /\ existing_rows[i].region_code = REGION_POINTS[k].region_code
                /\ DayOf(existing_rows[i]) >= today - 1}

RequestedPoints(log) ==
    {k \in 1..Len(REGION_POINTS) :
        \E m \in 1..Len(log) : /\ log[m].city = REGION_POINTS[k].city
                               /\ log[m].region_code = REGION_POINTS[k].region_code}

\* the last request made for point k failed
FailedPoint(log, k) ==
    \E m \in 1..Len(log) :
        /\ log[m].city = REGION_POINTS[k].city
        /\ log[m].outcome \in {"read_timeout", "http_429", "http_500", "connection_error"}
        /\ \A n \in (m + 1)..Len(log) : log[n].city # log[m].city

\* C14: a run in which every response that arrives is well formed is never aborted by
\* failing requests: whatever network errors, timeouts and HTTP error statuses occur, on
\* first attempts or on retries, the store is written; every point that is due is
\* requested; a failed point yields no row; and the store is made of the existing rows
\* and the rows of the points that succeeded, within the window.
C14_FailureNeverAborts ==
    [][(/\ runs' = runs + 1
        /\ \A m \in 1..Len(requests') : requests'[m].outcome # "bad_body")
       => /\ Written'
          /\ files'["raw"] = "json"
          /\ RequestedPoints(requests') = DuePoints(LoadExisting, pc' = "backfilled")
          /\ \A k \in 1..Len(REGION_POINTS) :
                 FailedPoint(requests', k) =>
                     \A i \in 1..Len(new_rows') : new_rows'[i].city # REGION_POINTS[k].city
          /\ \A i \in 1..Len(new_rows') :
                 ~FailedPoint(requests',
                              CHOOSE k \in 1..Len(REGION_POINTS) :
                                  REGION_POINTS[k].city = new_rows'[i].city)
          /\ AsSet(raw') =
                 {r \in AsSet(LoadExisting) :
                      IF pc' = "backfilled"
                      THEN DayOf(r) >= (today - 1) - (HISTORY_DAYS - 1)
                      ELSE /\ DayOf(r) >= today - (HISTORY_DAYS - 1)
                           /\ DayOf(r) < today}
                 \cup {r \in AsSet(new_rows') :
                          DayOf(r) >= (IF pc' = "backfilled" THEN today - 1 ELSE today)
                                          - (HISTORY_DAYS - 1)}]_vars

\* a backfill run over stored rows in which one point fails at once, one fails on the
\* retry and one succeeds: the store is written with the old rows and the new ones
C14_Witness ==
    /\ pc = "backfilled"
    /\ runs = 1
    /\ \E m \in 1..Len(requests) :
           requests[m].outcome = "connection_error" /\ requests[m].attempt = 0
    /\ \E m \in 1..Len(requests) :
           requests[m].outcome = "read_timeout" /\ requests[m].attempt = 1
    /\ \E m \in 1..Len(requests) : requests[m].outcome = "ok"
    /\ new_rows # <<>>
    /\ Len(raw) > Len(new_rows)
    /\ Cardinality({new_rows[i].city : i \in 1..Len(new_rows)}) = 1

(***************************************************************************)
(* One fetch call on its own: either fetch function, for any point of the  *)
(* catalog, any range of the window, and every pair of attempt outcomes.   *)
(***************************************************************************)
InitFetch ==
    /\ BeforeIngest
    /\ raw = <<>>
    /\ files = [s \in StoreNames |-> IF s = "raw" THEN "absent" ELSE "json"]
    /\ region_points = FullCatalog
    /\ REGION_POINTS = FullCatalog

\* new_rows.extend(fetch_daily_for_point(...)) or rows = fetch_forecast_for_point(pt)
FetchPoint ==
    /\ pc = "loaded"
    /\ \E k \in 1..Len(REGION_POINTS), kind \in {"archive", "forecast"},
          outcomes \in [1..2 -> AttemptOutcomes], shape \in {"full", "lagging"},
          start_fetch \in WindowDays :
           LET pt == REGION_POINTS[k]
               got == IF kind = "archive"
                      THEN fetch_daily_for_point(pt, isoformat(start_fetch), isoformat(today - 1),
                               [outcomes |-> outcomes,
                                times |-> TimesOf(start_fetch, today - 1, shape)])
                      ELSE fetch_forecast_for_point(pt,
                               [outcomes |-> outcomes,
                                times |-> TimesOf(today, today + 1, shape)])
           IN  /\ requests' = got.log
               /\ new_rows' = got.rows
               /\ pc' = IF got.raised THEN "fetch_raised" ELSE "fetch_returned"
               /\ UNCHANGED <<raw, regions_daily, alerts, region_row, prev_row, runs,
                              region_points, status, files, REGION_POINTS, today>>

NextFetch == FetchPoint

SpecFetch == InitFetch /\ [][NextFetch]_vars

Failures == {"read_timeout", "http_429", "http_500", "connection_error"}

\* the call ended without a response: the point is skipped
Skipped == pc = "fetch_returned" /\ requests[Len(requests)].outcome \in Failures

\* C15 as claimed: a point is skipped only after exactly two failed attempts with a
\* backoff sleep between them, and is never requested more than twice in one call.
C15_AlwaysRetried ==
    pc \in {"fetch_returned", "fetch_raised"} =>
        /\ Len(requests) <= 2
        /\ Skipped => /\ Len(requests) = 2
                      /\ requests[1].outcome \in Failures
                      /\ requests[1].backoff > 0

\* C15: in both fetch functions a read timeout or an HTTP 429 on the first attempt is
\* retried once, after a sleep of 5 and 3 seconds, and the point is skipped when the
\* retry fails in any way; any other request error skips the point after one attempt
\* and no sleep; a skipped point yields no row; no call makes more than two requests.
C15_RetryPolicy ==
    pc \in {"fetch_returned", "fetch_raised"} =>
        /\ Len(requests) \in 1..2
        /\ Len(requests) = 2 <=> requests[1].outcome \in {"read_timeout", "http_429"}
        /\ requests[1].backoff = (CASE requests[1].outcome = "read_timeout" -> 5
                                    [] requests[1].outcome = "http_429" -> 3
                                    [] OTHER -> 0)
        /\ Len(requests) = 2 => requests[2].backoff = 0 /\ requests[2].attempt = 1
        /\ requests[1].attempt = 0
        /\ Skipped => new_rows = <<>>
        /\ (pc = "fetch_returned" /\ ~Skipped) => requests[Len(requests)].outcome = "ok"

\* a forecast call that is skipped after a 429 and a timed-out retry
C15_Witness ==
    /\ Skipped
    /\ Len(requests) = 2
    /\ requests[1].kind = "forecast"
    /\ requests[1].outcome = "http_429"
    /\ requests[1].backoff = 3
    /\ requests[2].outcome = "read_timeout"
    /\ new_rows = <<>>

(***************************************************************************)
(* run_pipeline.py, and the stages run on their own.                       *)
(* Each stage is given the label that pc takes when it completes; an       *)
(* uncaught exception ends the process, which pc records as a crash.       *)
(***************************************************************************)
\* from .fetch_openmeteo import ...: the module body reads the catalog file
ImportModules ==
    /\ pc = "start"
    /\ IF files["region_points"] = "json"
       THEN REGION_POINTS' = region_points /\ pc' = "imported"
       ELSE UNCHANGED REGION_POINTS /\ pc' = "import_crashed"
    /\ UNCHANGED <<raw, regions_daily, alerts, region_row, prev_row, runs,
                   region_points, status, files, today, requests, new_rows>>

\* build_region_points_auto.main: the catalog computed from the geonames data is written
BuildRegions ==
    /\ pc = "imported"
    /\ region_points' \in Catalogs
    /\ files' = [files EXCEPT !["region_points"] = "json"]
    /\ pc' = "regions_built"
    /\ UNCHANGED <<raw, regions_daily, alerts, region_row, prev_row, runs,
                   status, REGION_POINTS, today, requests, new_rows>>

PipelinePlans ==
    { [outcomes |-> <<"ok", "ok">>, shape |-> "full"],
      [outcomes |-> <<"connection_error", "ok">>, shape |-> "full"] }

FetchStage == pc = "regions_built" /\ FetchWeatherWith(PipelinePlans)

\* compute_indices.main as a stage: json.loads(raw_path.read_text(...)) is not guarded
ComputeStage(done) ==
    /\ IF files["raw"] = "json"
       THEN /\ regions_daily' = compute_indices_main(raw)
            /\ files' = [files EXCEPT !["regions_daily"] = "json"]
            /\ pc' = done
       ELSE /\ pc' = "aggregate_crashed"
            /\ UNCHANGED <<regions_daily, files>>
    /\ UNCHANGED <<raw, alerts, region_row, prev_row, runs, region_points, status,
                   REGION_POINTS, today, requests, new_rows>>

\* detect_alerts.main as a stage: json.loads(daily_path.read_text(...)) is not guarded
DetectStage(done) ==
    /\ IF files["regions_daily"] = "json"
       THEN /\ alerts' = detect_alerts_main(regions_daily)
            /\ files' = [files EXCEPT !["alerts"] = "json"]
            /\ pc' = done
       ELSE /\ pc' = "detect_crashed"
            /\ UNCHANGED <<alerts, files>>
    /\ UNCHANGED <<raw, regions_daily, region_row, prev_row, runs, region_points, status,
                   REGION_POINTS, today, requests, new_rows>>

\* write_status: only FileNotFoundError is caught when the two stores are loaded
write_status(regions, alert_rows) ==
    [regions_count |-> Cardinality({regions[i].region_code : i \in 1..Len(regions)}),
     rows_count |-> Len(regions),
     alerts_count |-> Len(alert_rows)]

StatusStage(done) ==
    /\ IF files["regions_daily"] = "malformed" \/ files["alerts"] = "malformed"
       THEN /\ pc' = "status_crashed"
            /\ UNCHANGED status
       ELSE /\ status' = write_status(
                             IF files["regions_daily"] = "absent" THEN <<>> ELSE regions_daily,
                             IF files["alerts"] = "absent" THEN <<>> ELSE alerts)
            /\ pc' = done
    /\ UNCHANGED <<raw, regions_daily, alerts, region_row, prev_row, runs, region_points,
                   files, REGION_POINTS, today, requests, new_rows>>

\* export_for_web.main: every file is loaded and written again under the website
ExportStage(done) ==
    /\ pc' = IF \A s \in StoreNames \ {"raw"} : files[s] = "json"
             THEN done ELSE "export_crashed"
    /\ UNCHANGED <<raw, regions_daily, alerts, region_row, prev_row, runs, region_points,
                   status, files, REGION_POINTS, today, requests, new_rows>>

\* run_pipeline: steps 3 to 5, each after the one before
PipeComputeIndices == pc \in {"backfilled", "daily_fetched"} /\ ComputeStage("aggregated")

PipeDetectAlerts == pc = "aggregated" /\ DetectStage("detected")

PipeWriteStatus == pc = "detected" /\ StatusStage("status_written")

PipeExport == pc = "status_written" /\ ExportStage("completed")

\* python -m src.compute_indices, python -m src.detect_alerts, and the status and export
\* steps, each run once by hand over the stores as they are
RunComputeIndices == pc = "idle" /\ ComputeStage("stage_done")

RunDetectAlerts == pc = "idle" /\ DetectStage("stage_done")

RunWriteStatus == pc = "idle" /\ StatusStage("stage_done")

RunExport == pc = "idle" /\ ExportStage("stage_done")

\* the stores a previous run left: no row, or rows of both points of the catalog
InitPipeline ==
    /\ pc \in {"start", "idle"}
    /\ runs = 0
    /\ region_row = NoRow
    /\ prev_row = NoRow
    /\ status = NoStatus
    /\ today = FirstDay
    /\ requests = <<>>
    /\ new_rows = <<>>
    /\ region_points \in Catalogs
    /\ REGION_POINTS = <<>>
    /\ \E offsets \in {{}, {-2, -1}} :
           raw = StoredRows(region_points, {1, 2}, {FirstDay + o : o \in offsets}, 1)
    /\ regions_daily = compute_indices_main(raw)
    /\ alerts = detect_alerts_main(regions_daily)
    /\ files \in [StoreNames -> {"json", "malformed"}]

NextPipeline ==
    \/ ImportModules
    \/ BuildRegions
    \/ FetchStage
    \/ PipeComputeIndices
    \/ PipeDetectAlerts
    \/ PipeWriteStatus
    \/ PipeExport
    \/ RunComputeIndices
    \/ RunDetectAlerts
    \/ RunWriteStatus
    \/ RunExport

SpecPipeline == InitPipeline /\ [][NextPipeline]_vars

\* C16: no stage ends in an uncaught error because a store it loads is malformed: the
\* raw store in ingestion and aggregation, the region-day store in detection and status,
\* the alert store in status, the region catalog in ingestion; the stage goes on as with
\* an empty store.
C16_MalformedIsEmpty ==
    pc \notin {"import_crashed", "aggregate_crashed", "detect_crashed", "status_crashed"}

PipelineLabels ==
    <<"start", "imported", "regions_built", "fetched", "aggregated", "detected",
      "status_written", "completed">>

\* the position of the pipeline: "fetched" stands for the two labels of a finished fetch
Position ==
    LET label == IF pc \in {"backfilled", "daily_fetched"} THEN "fetched" ELSE pc
    IN  CHOOSE k \in 1..Len(PipelineLabels) : PipelineLabels[k] = label

InPipeline ==
    pc \in {"start", "imported", "regions_built", "backfilled", "daily_fetched",
            "aggregated", "detected", "status_written", "completed"}

\* C17: in a pipeline run every stage works on what the stage before it wrote in that
\* run: ingestion has fetched for the points of the catalog that the region-catalog stage
\* wrote, the region-day store is the aggregate of the raw store, the alert store is
\* detected from the region-day store, and the status counts both.
C17_StagesInOrder ==
    InPipeline =>
        /\ Position >= 4 =>
               /\ REGION_POINTS = region_points
               /\ \A m \in 1..Len(requests) :
                      \E k \in 1..Len(region_points) :
                          /\ region_points[k].city = requests[m].city
                          /\ region_points[k].region_code = requests[m].region_code
        /\ Position >= 5 => regions_daily = compute_indices_main(raw)
        /\ Position >= 6 => alerts = detect_alerts_main(regions_daily)
        /\ Position >= 7 => status = write_status(regions_daily, alerts)

====
